---------------------------- MODULE Spec2Model ----------------------------
(***************************************************************************)
(* Model of src/src/App.tsx (Firstrade tax assistant): the date and money  *)
(* parsers, the exchange-rate resolver, the three transaction calculators, *)
(* the year filter, and the App component's state with its event handlers  *)
(* (file load, rate fetch, year selection).                                *)
(*                                                                         *)
(* Representation.                                                         *)
(*  - A string whose characters the code inspects is a sequence of         *)
(*    one-character strings.                                               *)
(*  - A JS Date is the number of its local calendar day counted from       *)
(*    1970-01-01; the Invalid Date object and null are two sentinels.      *)
(*  - A 'yyyy-MM-dd' key is the triple <<year, month, day>>.               *)
(*  - A USD amount is an integer number of cents, a rate an integer number *)
(*    of tenths of a yen per dollar; Math.floor(usd * rate) is then an     *)
(*    integer floor division.                                              *)
(***************************************************************************)
EXTENDS Integers, Sequences, FiniteSets, Bags, TLC

VARIABLES
    gainLossData,    \* useState<JpyTransaction[]>
    dividendData,    \* useState<DividendTransaction[]>
    interestData,    \* useState<InterestTransaction[]>
    gainLossRaw,     \* useState<GainLossRow[] | null>
    dividendRaw,     \* useState<HistoryRow[] | null>
    interestRaw,     \* useState<HistoryRow[] | null>
    rates,           \* useState<RatesMap>
    loading,         \* useState(false)
    fetchingRates,   \* useState(false)
    error,           \* useState<string | null>
    selectedYear,    \* useState<number>
    activeTab,       \* useState<'capital' | 'dividend' | 'interest'>
    pendingLoads,    \* FileReader reads in flight, each with the closure it was started from
    pendingFetch,    \* the fetch() in flight, with the closure of fetchExchangeRates
    fetchedRange,    \* the days asked for in the request whose answer `rates` holds
    probe,           \* resolver harness: the date looked up and the result returned
    calcRuns         \* calculator harness: how often each calculator has run

vars == <<gainLossData, dividendData, interestData, gainLossRaw, dividendRaw,
          interestRaw, rates, loading, fetchingRates, error, selectedYear,
          activeTab, pendingLoads, pendingFetch, fetchedRange, probe, calcRuns>>

appVars == <<gainLossData, dividendData, interestData, gainLossRaw, dividendRaw,
             interestRaw, rates, loading, fetchingRates, error, selectedYear,
             activeTab, pendingLoads, pendingFetch, fetchedRange>>

-----------------------------------------------------------------------------
(* Program constants *)

\* while (attempts < 10)
MaxAttempts == 10

\* subDays(minDate, 10)
FetchBackDays == 10

\* new Date().getFullYear() at the time the component is mounted
CurrentYear == 2026

-----------------------------------------------------------------------------
(* Dates: date-fns format / parse / parseISO / subDays, Date.getFullYear *)

NullDate == 0 - 1        \* null
InvalidDate == 0 - 2     \* the Invalid Date object (time value NaN)

IsLeap(y) == (y % 4 = 0 /\ y % 100 # 0) \/ y % 400 = 0

DaysInMonth(y, m) ==
    IF m = 2 THEN (IF IsLeap(y) THEN 29 ELSE 28)
    ELSE IF m \in {4, 6, 9, 11} THEN 30 ELSE 31

\* the day number of the civil date y-m-d
DaysFromCivil(y, m, d) ==
    LET yy  == IF m <= 2 THEN y - 1 ELSE y
        era == yy \div 400
        yoe == yy - era * 400
        mp  == IF m > 2 THEN m - 3 ELSE m + 9
        doy == (153 * mp + 2) \div 5 + d - 1
        doe == yoe * 365 + yoe \div 4 - yoe \div 100 + doy
    IN  era * 146097 + doe - 719468

\* the civil date <<y, m, d>> of a day number
CivilFromDays(z) ==
    LET zz  == z + 719468
        era == zz \div 146097
        doe == zz - era * 146097
        yoe == (doe - doe \div 1460 + doe \div 36524 - doe \div 146096) \div 365
        doy == doe - (365 * yoe + yoe \div 4 - yoe \div 100)
        mp  == (5 * doy + 2) \div 153
        d   == doy - (153 * mp + 2) \div 5 + 1
        m   == IF mp < 10 THEN mp + 3 ELSE mp - 9
        y   == yoe + era * 400 + (IF m <= 2 THEN 1 ELSE 0)
    IN  <<y, m, d>>

\* format(date, 'yyyy-MM-dd')
format(date) == CivilFromDays(date)

\* subDays(date, n)
subDays(date, n) == IF date = InvalidDate THEN InvalidDate ELSE date - n

\* date.getFullYear()
getFullYear(date) == CivilFromDays(date)[1]


-----------------------------------------------------------------------------
(* Strings as sequences of characters *)

Digits == <<"0", "1", "2", "3", "4", "5", "6", "7", "8", "9">>

UpperChars == <<"A", "B", "C", "D", "E", "F", "G", "H", "I", "J", "K", "L", "M",
                "N", "O", "P", "Q", "R", "S", "T", "U", "V", "W", "X", "Y", "Z">>

LowerChars == <<"a", "b", "c", "d", "e", "f", "g", "h", "i", "j", "k", "l", "m",
                "n", "o", "p", "q", "r", "s", "t", "u", "v", "w", "x", "y", "z">>

IsDigit(c) == \E i \in 1..10 : Digits[i] = c

DigitVal(c) == (CHOOSE i \in 1..10 : Digits[i] = c) - 1

LowerChar(c) ==
    IF \E i \in 1..26 : UpperChars[i] = c
    THEN LowerChars[CHOOSE i \in 1..26 : UpperChars[i] = c]
    ELSE c

\* str.toLowerCase()
toLowerCase(str) == [i \in 1..Len(str) |-> LowerChar(str[i])]

\* whether pat occurs in str at (1-based) position i
MatchesAt(str, i, pat) ==
    /\ i >= 1
    /\ i + Len(pat) - 1 <= Len(str)
    /\ SubSeq(str, i, i + Len(pat) - 1) = pat

\* str.includes(pat)
includes(str, pat) == \E i \in 1..(Len(str) + 1) : MatchesAt(str, i, pat)

\* str.startsWith(pat)
startsWith(str, pat) == MatchesAt(str, 1, pat)

AllDigits(str) == \A i \in 1..Len(str) : IsDigit(str[i])

RECURSIVE NumVal(_)
\* the number written by a string of decimal digits
NumVal(str) ==
    IF str = <<>> THEN 0
    ELSE NumVal(SubSeq(str, 1, Len(str) - 1)) * 10 + DigitVal(str[Len(str)])

RECURSIVE SplitOn(_, _)
\* str.split(sep) for a one-character separator
SplitOn(str, sep) ==
    IF \A i \in 1..Len(str) : str[i] # sep THEN <<str>>
    ELSE LET i == CHOOSE j \in 1..Len(str) :
                      str[j] = sep /\ \A k \in 1..(j - 1) : str[k] # sep
         IN  <<SubSeq(str, 1, i - 1)>> \o SplitOn(SubSeq(str, i + 1, Len(str)), sep)

\* the length of the longest prefix of str, from position i on, made of characters in cs
RECURSIVE RunLen(_, _, _)
RunLen(str, i, cs) ==
    IF i <= Len(str) /\ str[i] \in cs THEN 1 + RunLen(str, i + 1, cs) ELSE 0

-----------------------------------------------------------------------------
(* Texts. A text is held as a TLA+ string; Chars gives its characters, on   *)
(* which the parsers work.                                                 *)

TextTable ==
    ("Symbol,Quantity,Date Acquired,Date Sold,Sales Proceeds,Adjust Cost,WS Loss Disallowed,Wash Sales" :>
        <<"S", "y", "m", "b", "o", "l", ",", "Q", "u", "a", "n", "t",
        "i", "t", "y", ",", "D", "a", "t", "e", " ", "A", "c", "q", "u",
        "i", "r", "e", "d", ",", "D", "a", "t", "e", " ", "S", "o", "l",
        "d", ",", "S", "a", "l", "e", "s", " ", "P", "r", "o", "c", "e",
        "e", "d", "s", ",", "A", "d", "j", "u", "s", "t", " ", "C", "o",
        "s", "t", ",", "W", "S", " ", "L", "o", "s", "s", " ", "D", "i",
        "s", "a", "l", "l", "o", "w", "e", "d", ",", "W", "a", "s", "h",
        " ", "S", "a", "l", "e", "s">>) @@
    ("Symbol,Action,Description,TradeDate,Amount" :>
        <<"S", "y", "m", "b", "o", "l", ",", "A", "c", "t", "i", "o",
        "n", ",", "D", "e", "s", "c", "r", "i", "p", "t", "i", "o", "n",
        ",", "T", "r", "a", "d", "e", "D", "a", "t", "e", ",", "A", "m",
        "o", "u", "n", "t">>) @@
    ("\"Symbol\",\"Action\",\"Description\",\"TradeDate\"" :>
        <<"\"", "S", "y", "m", "b", "o", "l", "\"", ",", "\"", "A", "c",
        "t", "i", "o", "n", "\"", ",", "\"", "D", "e", "s", "c", "r",
        "i", "p", "t", "i", "o", "n", "\"", ",", "\"", "T", "r", "a",
        "d", "e", "D", "a", "t", "e", "\"">>) @@
    ("Symbol,Name,Price" :>
        <<"S", "y", "m", "b", "o", "l", ",", "N", "a", "m", "e", ",",
        "P", "r", "i", "c", "e">>) @@
    (" Account History " :>
        <<" ", "A", "c", "c", "o", "u", "n", "t", " ", "H", "i", "s",
        "t", "o", "r", "y", " ">>) @@
    ("AAPL" :> <<"A", "A", "P", "L">>) @@
    ("MSFT" :> <<"M", "S", "F", "T">>) @@
    ("Total AAPL" :>
        <<"T", "o", "t", "a", "l", " ", "A", "A", "P", "L">>) @@
    ("01/02/2023" :>
        <<"0", "1", "/", "0", "2", "/", "2", "0", "2", "3">>) @@
    ("03/04/2023" :>
        <<"0", "3", "/", "0", "4", "/", "2", "0", "2", "3">>) @@
    ("12/30/2022" :>
        <<"1", "2", "/", "3", "0", "/", "2", "0", "2", "2">>) @@
    ("VARIOUS" :> <<"V", "A", "R", "I", "O", "U", "S">>) @@
    ("13/45/2023" :>
        <<"1", "3", "/", "4", "5", "/", "2", "0", "2", "3">>) @@
    ("2023-06-15" :>
        <<"2", "0", "2", "3", "-", "0", "6", "-", "1", "5">>) @@
    ("2022-12-30" :>
        <<"2", "0", "2", "2", "-", "1", "2", "-", "3", "0">>) @@
    ("2023-07-20" :>
        <<"2", "0", "2", "3", "-", "0", "7", "-", "2", "0">>) @@
    ("$1,500.00" :> <<"$", "1", ",", "5", "0", "0", ".", "0", "0">>) @@
    ("$1,000.00" :> <<"$", "1", ",", "0", "0", "0", ".", "0", "0">>) @@
    ("$8.50" :> <<"$", "8", ".", "5", "0">>) @@
    ("$1.50" :> <<"$", "1", ".", "5", "0">>) @@
    ("-$12.00" :> <<"-", "$", "1", "2", ".", "0", "0">>) @@
    ("0.37" :> <<"0", ".", "3", "7">>) @@
    ("10" :> <<"1", "0">>) @@
    ("$0.00" :> <<"$", "0", ".", "0", "0">>) @@
    ("NON-RES TAX WITHHELD $1.50" :>
        <<"N", "O", "N", "-", "R", "E", "S", " ", "T", "A", "X", " ",
        "W", "I", "T", "H", "H", "E", "L", "D", " ", "$", "1", ".", "5",
        "0">>) @@
    ("CASH DIV ON 10 SHS" :>
        <<"C", "A", "S", "H", " ", "D", "I", "V", " ", "O", "N", " ",
        "1", "0", " ", "S", "H", "S">>) @@
    ("INTEREST ON CREDIT BALANCE" :>
        <<"I", "N", "T", "E", "R", "E", "S", "T", " ", "O", "N", " ",
        "C", "R", "E", "D", "I", "T", " ", "B", "A", "L", "A", "N", "C",
        "E">>)

\* the characters of a text ("" and undefined have none)
Chars(text) == IF text = "" THEN <<>> ELSE TextTable[text]

-----------------------------------------------------------------------------
(* parseMoney, parseDateAny, extractTaxFromDescription *)

NaN == "NaN"

MoneyChars == {Digits[i] : i \in 1..10} \cup {".", "-"}

\* str.replace(/[^0-9.-]/g, '')
StripMoney(str) == SelectSeq(str, LAMBDA c : c \in MoneyChars)

\* parseFloat(s) in cents, for s made of the characters 0-9 . - only: an optional
\* sign, digits, an optional point and digits; what follows is ignored; NaN when
\* there is no digit. Digits after the second decimal are dropped.
parseFloat(s) ==
    LET neg   == Len(s) >= 1 /\ s[1] = "-"
        b     == IF neg THEN 2 ELSE 1
        DS    == {Digits[i] : i \in 1..10}
        nInt  == RunLen(s, b, DS)
        p     == b + nInt
        dot   == p <= Len(s) /\ s[p] = "."
        nFrac == IF dot THEN RunLen(s, p + 1, DS) ELSE 0
        whole == NumVal(SubSeq(s, b, b + nInt - 1))
        fr    == SubSeq(s, p + 1, p + nFrac)
        cents == IF nFrac = 0 THEN 0
                 ELSE IF nFrac = 1 THEN DigitVal(fr[1]) * 10
                 ELSE DigitVal(fr[1]) * 10 + DigitVal(fr[2])
        mag   == whole * 100 + cents
    IN  IF nInt + nFrac = 0 THEN NaN
        ELSE IF neg THEN 0 - mag ELSE mag

\* function parseMoney(str: string): number
parseMoney(str) ==
    IF str = <<>> THEN 0
    ELSE parseFloat(StripMoney(str))

\* parse(str, 'MM/dd/yyyy', new Date()): Invalid Date unless the text is
\* month/day/year in digits naming a day of the calendar
parseSlash(str) ==
    LET parts == SplitOn(str, "/") IN
    IF /\ Len(parts) = 3
       /\ \A i \in 1..3 : parts[i] # <<>> /\ AllDigits(parts[i])
       /\ Len(parts[1]) <= 2 /\ Len(parts[2]) <= 2 /\ Len(parts[3]) <= 4
    THEN LET m == NumVal(parts[1])
             d == NumVal(parts[2])
             y == NumVal(parts[3])
         IN  IF m \in 1..12 /\ d >= 1 /\ d <= DaysInMonth(y, m)
             THEN DaysFromCivil(y, m, d) ELSE InvalidDate
    ELSE InvalidDate

\* parseISO(str): Invalid Date unless the text is yyyy-MM-dd naming a day of the calendar
parseISO(str) ==
    LET parts == SplitOn(str, "-") IN
    IF /\ Len(parts) = 3
       /\ \A i \in 1..3 : AllDigits(parts[i])
       /\ Len(parts[1]) = 4 /\ Len(parts[2]) = 2 /\ Len(parts[3]) = 2
    THEN LET y == NumVal(parts[1])
             m == NumVal(parts[2])
             d == NumVal(parts[3])
         IN  IF m \in 1..12 /\ d >= 1 /\ d <= DaysInMonth(y, m)
             THEN DaysFromCivil(y, m, d) ELSE InvalidDate
    ELSE InvalidDate

\* function parseDateAny(str: string): Date | null
parseDateAny(str) ==
    IF str = <<>> \/ includes(toLowerCase(str), <<"v", "a", "r">>) THEN NullDate
    ELSE IF includes(str, <<"/">>) THEN parseSlash(str)
    ELSE IF includes(str, <<"-">>) THEN parseISO(str)
    ELSE NullDate

\* a Date | null is truthy unless it is null (the Invalid Date object is truthy)
IsDateObject(d) == d # NullDate

TaxWithheld == <<"t", "a", "x", " ", "w", "i", "t", "h", "h", "e", "l", "d">>

TaxAmountChars == {Digits[i] : i \in 1..10} \cup {",", "."}

\* desc.match(/TAX WITHHELD\s+\$?([0-9,.]+)/i): the captured group of the leftmost
\* match, <<>> when there is no match
TaxMatch(desc) ==
    LET low == toLowerCase(desc)
        \* the capture of a match starting at i, <<>> if none starts there
        At(i) ==
            IF ~MatchesAt(low, i, TaxWithheld) THEN <<>>
            ELSE LET s   == i + Len(TaxWithheld)
                     nWs == RunLen(desc, s, {" "})
                     a   == s + nWs
                     b   == IF a <= Len(desc) /\ desc[a] = "$" THEN a + 1 ELSE a
                     \* with the "$" taken, else (backtracking) without it
                     n1  == RunLen(desc, b, TaxAmountChars)
                     n0  == RunLen(desc, a, TaxAmountChars)
                 IN  IF nWs = 0 THEN <<>>
                     ELSE IF n1 > 0 THEN SubSeq(desc, b, b + n1 - 1)
                     ELSE IF n0 > 0 THEN SubSeq(desc, a, a + n0 - 1)
                     ELSE <<>>
        hits == {i \in 1..Len(desc) : At(i) # <<>>}
    IN  IF hits = {} THEN <<>>
        ELSE At(CHOOSE i \in hits : \A j \in hits : i <= j)

\* function extractTaxFromDescription(desc: string): number
extractTaxFromDescription(desc) ==
    LET m == TaxMatch(desc) IN
    IF m # <<>> THEN parseMoney(m) ELSE 0

\* the texts of the model
Texts == DOMAIN TextTable \cup {""}

\* parseDateAny, parseMoney, parseFloat and extractTaxFromDescription on the texts
\* of the model, evaluated once
DateOfText == [text \in Texts |-> parseDateAny(Chars(text))]

MoneyOfText == [text \in Texts |-> parseMoney(Chars(text))]

FloatOfText == [text \in Texts |-> parseFloat(Chars(text))]

TaxOfText == [text \in Texts |-> extractTaxFromDescription(Chars(text))]

\* str.toLowerCase().includes('var') on the texts of the model
HasVarText == [text \in Texts |-> includes(toLowerCase(Chars(text)), <<"v", "a", "r">>)]

-----------------------------------------------------------------------------
(* getRateForDate *)

\* the sentinel returned as dateUsed when no rate is found
NotFound == <<"N/A">>

\* if (rates[key]): the key is present and its value is truthy
HasRate(table, key) == key \in DOMAIN table /\ table[key] # 0

RECURSIVE RateLoopOneMore(_, _, _)
\* a faulty variant of RateLoop: the loop runs while attempts <= 10
RateLoopOneMore(current, attempts, table) ==
    IF attempts <= MaxAttempts
    THEN LET key == format(current) IN
         IF HasRate(table, key)
         THEN [rate |-> table[key], dateUsed |-> key, lookups |-> attempts + 1]
         ELSE RateLoopOneMore(subDays(current, 1), attempts + 1, table)
    ELSE [rate |-> 0, dateUsed |-> NotFound, lookups |-> attempts]

RECURSIVE RateLoopLast(_, _, _, _)
\* a loop that keeps searching after a hit and returns the oldest rate of the window
RateLoopLast(current, attempts, table, found) ==
    IF attempts < MaxAttempts
    THEN LET key == format(current) IN
         RateLoopLast(subDays(current, 1), attempts + 1, table,
                      IF HasRate(table, key)
                      THEN [rate |-> table[key], dateUsed |-> key, lookups |-> MaxAttempts]
                      ELSE found)
    ELSE found

\* a faulty variant of RateLoop: no return inside the loop
RateLoopOldest(current, attempts, table) ==
    RateLoopLast(current, attempts, table,
                 [rate |-> 0, dateUsed |-> NotFound, lookups |-> MaxAttempts])

RECURSIVE RateLoop(_, _, _)
\* the while loop of getRateForDate, entered with `current` and `attempts`;
\* lookups counts the evaluations of rates[key] made by the call
RateLoop(current, attempts, table) ==
    IF attempts < MaxAttempts
    THEN LET key == format(current) IN
         IF HasRate(table, key)
         THEN [rate |-> table[key], dateUsed |-> key, lookups |-> attempts + 1]
         ELSE RateLoop(subDays(current, 1), attempts + 1, table)
    ELSE [rate |-> 0, dateUsed |-> NotFound, lookups |-> attempts]

\* a faulty variant of getRateForDate: the rate is returned under the date asked for
getRateForDateAsked(date, table) ==
    [RateLoop(date, 0, table) EXCEPT !.dateUsed = format(date)]

\* function getRateForDate(date: Date, rates: RatesMap): { rate, dateUsed }
\* (called with a valid date; format() throws a RangeError on the Invalid Date)
getRateForDate(date, table) == RateLoop(date, 0, table)

-----------------------------------------------------------------------------
(* The three calculators *)

\* Math.floor(usd * rate): usd in cents, rate in tenths of a yen
JpyFloor(usd, rate) == (usd * rate) \div 1000

\* the k-th element, in increasing order, of a set of indices
NthOf(keep, k) == CHOOSE i \in keep : Cardinality({j \in keep : j < i}) = k - 1

\* rows.map(f).filter(Boolean), f(row, idx) being null off `keep`
MapKept(rows, keep, f(_, _)) ==
    [k \in 1..Cardinality(keep) |-> f(rows[NthOf(keep, k)], NthOf(keep, k) - 1)]

\* the acquisition date used by calculateGainLoss: if (!dateAcquired) dateAcquired = dateSold
AcquiredOrSold(row) ==
    LET dateAcquired == DateOfText[row.DateAcquired] IN
    IF ~IsDateObject(dateAcquired) THEN DateOfText[row.DateSold] ELSE dateAcquired

\* a faulty variant of GainLossRecord: the gain is the floor of the gain in yen, not the
\* difference of the two floored amounts
GainLossRecordFloorOfGain(row, idx, currentRates) ==
    LET dateSold     == DateOfText[row.DateSold]
        isVarious    == /\ ~IsDateObject(DateOfText[row.DateAcquired])
                        /\ HasVarText[row.DateAcquired]
        dateAcquired == AcquiredOrSold(row)
        proceedsUsd  == MoneyOfText[row.SalesProceeds]
        costUsd      == MoneyOfText[row.AdjustCost]
        rateSoldData == getRateForDate(dateSold, currentRates)
        rateAcqData  == getRateForDate(dateAcquired, currentRates)
    IN  [id |-> idx,
         symbol |-> row.Symbol,
         quantity |-> FloatOfText[row.Quantity],
         dateAcquired |-> dateAcquired,
         dateSold |-> dateSold,
         proceedsUsd |-> proceedsUsd,
         costUsd |-> costUsd,
         wsDisallowed |-> MoneyOfText[row.WSLossDisallowed],
         rateAcquired |-> rateAcqData.rate,
         rateSold |-> rateSoldData.rate,
         proceedsJpy |-> JpyFloor(proceedsUsd, rateSoldData.rate),
         costJpy |-> JpyFloor(costUsd, rateAcqData.rate),
         gainLossJpy |-> (proceedsUsd * rateSoldData.rate
                            - costUsd * rateAcqData.rate) \div 1000,
         isWashSale |-> (row.WashSales = "YES"),
         notes |-> IF isVarious THEN "various"
                   ELSE IF rateSoldData.rate = 0 THEN "rateError" ELSE ""]

\* the callback of rows.map in calculateGainLoss, for a row with a dateSold
GainLossRecord(row, idx, currentRates) ==
    LET dateSold     == DateOfText[row.DateSold]
        isVarious    == /\ ~IsDateObject(DateOfText[row.DateAcquired])
                        /\ HasVarText[row.DateAcquired]
        dateAcquired == AcquiredOrSold(row)
        proceedsUsd  == MoneyOfText[row.SalesProceeds]
        costUsd      == MoneyOfText[row.AdjustCost]
        wsDisallowed == MoneyOfText[row.WSLossDisallowed]
        rateSoldData == getRateForDate(dateSold, currentRates)
        rateAcqData  == getRateForDate(dateAcquired, currentRates)
        proceedsJpy  == JpyFloor(proceedsUsd, rateSoldData.rate)
        costJpy      == JpyFloor(costUsd, rateAcqData.rate)
    IN  [id |-> idx,
         symbol |-> row.Symbol,
         quantity |-> FloatOfText[row.Quantity],
         dateAcquired |-> dateAcquired,
         dateSold |-> dateSold,
         proceedsUsd |-> proceedsUsd,
         costUsd |-> costUsd,
         wsDisallowed |-> wsDisallowed,
         rateAcquired |-> rateAcqData.rate,
         rateSold |-> rateSoldData.rate,
         proceedsJpy |-> proceedsJpy,
         costJpy |-> costJpy,
         gainLossJpy |-> proceedsJpy - costJpy,
         isWashSale |-> (row.WashSales = "YES"),
         notes |-> IF isVarious THEN "various"
                   ELSE IF rateSoldData.rate = 0 THEN "rateError" ELSE ""]

\* whether calculateGainLoss throws: some row reaches getRateForDate with the
\* Invalid Date, on which format() throws
GainLossThrows(rows) ==
    \E i \in 1..Len(rows) :
        /\ IsDateObject(DateOfText[rows[i].DateSold])
        /\ \/ DateOfText[rows[i].DateSold] = InvalidDate
           \/ AcquiredOrSold(rows[i]) = InvalidDate

\* a faulty variant of calculateGainLoss: the ids go on from the records derived before
calculateGainLossContinuingIds(rows, currentRates) ==
    MapKept(rows,
            {i \in 1..Len(rows) : IsDateObject(DateOfText[rows[i].DateSold])},
            LAMBDA row, idx : GainLossRecord(row, idx + Len(gainLossData), currentRates))

\* const calculateGainLoss = (rows, currentRates) => ...: the array handed to setGainLossData
calculateGainLoss(rows, currentRates) ==
    MapKept(rows,
            {i \in 1..Len(rows) : IsDateObject(DateOfText[rows[i].DateSold])},
            LAMBDA row, idx : GainLossRecord(row, idx, currentRates))

\* a faulty variant of DividendRecord: the gross amount in yen is the sum of the floored
\* net and tax amounts
DividendRecordSummed(row, idx, currentRates) ==
    LET date           == DateOfText[row.TradeDate]
        amountNetUsd   == MoneyOfText[row.Amount]
        taxUsd         == TaxOfText[row.Description]
        rateData       == getRateForDate(date, currentRates)
    IN  [id |-> idx,
         symbol |-> row.Symbol,
         date |-> date,
         amountNetUsd |-> amountNetUsd,
         taxUsd |-> taxUsd,
         amountGrossUsd |-> amountNetUsd + taxUsd,
         rate |-> rateData.rate,
         amountGrossJpy |-> JpyFloor(amountNetUsd, rateData.rate)
                              + JpyFloor(taxUsd, rateData.rate),
         taxJpy |-> JpyFloor(taxUsd, rateData.rate),
         amountNetJpy |-> JpyFloor(amountNetUsd, rateData.rate),
         description |-> row.Description]

\* a faulty variant of DividendRecord: the tax withheld is not added to the net amount
DividendRecordNetAsGross(row, idx, currentRates) ==
    LET date           == DateOfText[row.TradeDate]
        amountNetUsd   == MoneyOfText[row.Amount]
        taxUsd         == TaxOfText[row.Description]
        rateData       == getRateForDate(date, currentRates)
    IN  [id |-> idx,
         symbol |-> row.Symbol,
         date |-> date,
         amountNetUsd |-> amountNetUsd,
         taxUsd |-> taxUsd,
         amountGrossUsd |-> amountNetUsd,
         rate |-> rateData.rate,
         amountGrossJpy |-> JpyFloor(amountNetUsd, rateData.rate),
         taxJpy |-> JpyFloor(taxUsd, rateData.rate),
         amountNetJpy |-> JpyFloor(amountNetUsd, rateData.rate),
         description |-> row.Description]

\* the callback of rows.map in calculateDividends, for a row with a date
DividendRecord(row, idx, currentRates) ==
    LET date           == DateOfText[row.TradeDate]
        amountNetUsd   == MoneyOfText[row.Amount]
        taxUsd         == TaxOfText[row.Description]
        amountGrossUsd == amountNetUsd + taxUsd
        rateData       == getRateForDate(date, currentRates)
    IN  [id |-> idx,
         symbol |-> row.Symbol,
         date |-> date,
         amountNetUsd |-> amountNetUsd,
         taxUsd |-> taxUsd,
         amountGrossUsd |-> amountGrossUsd,
         rate |-> rateData.rate,
         amountGrossJpy |-> JpyFloor(amountGrossUsd, rateData.rate),
         taxJpy |-> JpyFloor(taxUsd, rateData.rate),
         amountNetJpy |-> JpyFloor(amountNetUsd, rateData.rate),
         description |-> row.Description]

\* whether calculateDividends / calculateInterests throws (as GainLossThrows)
HistoryThrows(rows) ==
    \E i \in 1..Len(rows) : DateOfText[rows[i].TradeDate] = InvalidDate

\* const calculateDividends = (rows, currentRates) => ...: the array handed to setDividendData
calculateDividends(rows, currentRates) ==
    MapKept(rows,
            {i \in 1..Len(rows) : IsDateObject(DateOfText[rows[i].TradeDate])},
            LAMBDA row, idx : DividendRecord(row, idx, currentRates))

\* the callback of rows.map in calculateInterests, for a row with a date
InterestRecord(row, idx, currentRates) ==
    LET date         == DateOfText[row.TradeDate]
        amountNetUsd == MoneyOfText[row.Amount]
        rateData     == getRateForDate(date, currentRates)
    IN  [id |-> idx,
         symbol |-> row.Symbol,
         date |-> date,
         amountNetUsd |-> amountNetUsd,
         rate |-> rateData.rate,
         amountNetJpy |-> JpyFloor(amountNetUsd, rateData.rate),
         description |-> row.Description]

\* const calculateInterests = (rows, currentRates) => ...: the array handed to setInterestData
calculateInterests(rows, currentRates) ==
    MapKept(rows,
            {i \in 1..Len(rows) : IsDateObject(DateOfText[rows[i].TradeDate])},
            LAMBDA row, idx : InterestRecord(row, idx, currentRates))

-----------------------------------------------------------------------------
(* Year filter and available years *)

\* a faulty variant of FilterGainLoss: the records sold in the selected year or later
FilterGainLossSince(data, year) == SelectSeq(data, LAMBDA t : getFullYear(t.dateSold) >= year)

\* gainLossData.filter(t => t.dateSold.getFullYear() === selectedYear)
FilterGainLoss(data, year) == SelectSeq(data, LAMBDA t : getFullYear(t.dateSold) = year)

\* dividendData.filter(t => t.date.getFullYear() === selectedYear), also for interestData
FilterByDate(data, year) == SelectSeq(data, LAMBDA t : getFullYear(t.date) = year)

filteredGainLoss == FilterGainLoss(gainLossData, selectedYear)

filteredDividends == FilterByDate(dividendData, selectedYear)

filteredInterests == FilterByDate(interestData, selectedYear)

\* the characters in the order a.localeCompare(b) ranks them at the first level:
\* blank and punctuation, digits, letters without regard to case
CollationChars == <<" ", "-", ",", ".", "\"", "/", "$">> \o Digits \o LowerChars

CollationRank(c) == CHOOSE i \in 1..Len(CollationChars) : CollationChars[i] = LowerChar(c)

\* the first position at which two sequences of equal length differ, 0 if none
FirstDifference(a, b) ==
    LET diff == {i \in 1..Len(a) : a[i] # b[i]} IN
    IF diff = {} THEN 0 ELSE CHOOSE i \in diff : \A j \in diff : i <= j

\* a.localeCompare(b) on character sequences: first the letters without regard to
\* case, the shorter of two sequences that agree first; then lower case before upper
localeCompare(a, b) ==
    LET n == IF Len(a) < Len(b) THEN Len(a) ELSE Len(b)
        d == FirstDifference(toLowerCase(SubSeq(a, 1, n)), toLowerCase(SubSeq(b, 1, n)))
    IN  IF d # 0
        THEN IF CollationRank(a[d]) < CollationRank(b[d]) THEN -1 ELSE 1
        ELSE IF Len(a) # Len(b) THEN IF Len(a) < Len(b) THEN -1 ELSE 1
        ELSE IF a = b THEN 0
        ELSE IF LowerChar(a[FirstDifference(a, b)]) = a[FirstDifference(a, b)] THEN -1 ELSE 1

\* the group a symbol gets when it is first seen
EmptyGroup ==
    [summary |-> [proceeds |-> 0, cost |-> 0, gainLoss |-> 0,
                  proceedsUsd |-> 0, costUsd |-> 0, gainLossUsd |-> 0],
     transactions |-> <<>>]

\* groups[t.symbol] after the callback of forEach has handled t
GroupWith(group, t) ==
    [summary |-> [proceeds |-> group.summary.proceeds + t.proceedsJpy,
                  cost |-> group.summary.cost + t.costJpy,
                  gainLoss |-> group.summary.gainLoss + t.gainLossJpy,
                  proceedsUsd |-> group.summary.proceedsUsd + t.proceedsUsd,
                  costUsd |-> group.summary.costUsd + t.costUsd,
                  gainLossUsd |-> group.summary.gainLossUsd + (t.proceedsUsd - t.costUsd)],
     transactions |-> Append(group.transactions, t)]

\* a faulty variant of AddToGroups: a record replaces the group of its symbol
AddToGroupsAnew(groups, t) == (t.symbol :> GroupWith(EmptyGroup, t)) @@ groups

\* the callback of filteredGainLoss.forEach: `groups` after the record t
AddToGroups(groups, t) ==
    (t.symbol :> GroupWith(IF t.symbol \in DOMAIN groups THEN groups[t.symbol]
                           ELSE EmptyGroup, t)) @@ groups

RECURSIVE GroupsAfter(_, _)
\* `groups` after forEach has handled the first n records
GroupsAfter(filtered, n) ==
    IF n = 0 THEN << >> ELSE AddToGroups(GroupsAfter(filtered, n - 1), filtered[n])

RECURSIVE SortedKeys(_)
\* the keys of Object.entries(groups).sort((a, b) => a[0].localeCompare(b[0]))
SortedKeys(keys) ==
    IF keys = {} THEN <<>>
    ELSE LET first == CHOOSE k \in keys :
                         \A other \in keys : localeCompare(Chars(k), Chars(other)) <= 0
         IN  <<first>> \o SortedKeys(keys \ {first})

\* Object.entries(groups).sort(...): the entries [symbol, group], by symbol
EntriesOf(groups) ==
    LET keys == SortedKeys(DOMAIN groups) IN
    [k \in 1..Len(keys) |-> <<keys[k], groups[keys[k]]>>]

groupedGainLoss == EntriesOf(GroupsAfter(filteredGainLoss, Len(filteredGainLoss)))

\* the callback of filteredGainLoss.reduce: the accumulator after the record t
TotalsWith(acc, t) ==
    [proceeds |-> acc.proceeds + t.proceedsJpy,
     cost |-> acc.cost + t.costJpy,
     gainLoss |-> acc.gainLoss + t.gainLossJpy,
     proceedsUsd |-> acc.proceedsUsd + t.proceedsUsd,
     costUsd |-> acc.costUsd + t.costUsd,
     gainLossUsd |-> acc.gainLossUsd + (t.proceedsUsd - t.costUsd),
     wsDisallowed |-> acc.wsDisallowed + t.wsDisallowed,
     count |-> acc.count + 1]

RECURSIVE TotalsAfter(_, _)
\* filteredGainLoss.reduce(...) over the first n records
TotalsAfter(filtered, n) ==
    IF n = 0
    THEN [proceeds |-> 0, cost |-> 0, gainLoss |-> 0, proceedsUsd |-> 0, costUsd |-> 0,
          gainLossUsd |-> 0, wsDisallowed |-> 0, count |-> 0]
    ELSE TotalsWith(TotalsAfter(filtered, n - 1), filtered[n])

totalsGainLoss == TotalsAfter(filteredGainLoss, Len(filteredGainLoss))

\* a faulty variant of YearsOfData: only the years of the capital gains are collected
YearsOfDataSold ==
    {getFullYear(gainLossData[i].dateSold) : i \in 1..Len(gainLossData)}

\* the Set<number> built by availableYears
YearsOfData ==
    {getFullYear(gainLossData[i].dateSold) : i \in 1..Len(gainLossData)}
    \cup {getFullYear(dividendData[i].date) : i \in 1..Len(dividendData)}
    \cup {getFullYear(interestData[i].date) : i \in 1..Len(interestData)}

RECURSIVE SortDesc(_)
\* Array.from(years).sort((a, b) => b - a)
SortDesc(S) ==
    IF S = {} THEN <<>>
    ELSE LET m == CHOOSE x \in S : \A y \in S : y <= x
         IN  <<m>> \o SortDesc(S \ {m})

availableYears ==
    IF YearsOfData = {} THEN <<CurrentYear>> ELSE SortDesc(YearsOfData)

-----------------------------------------------------------------------------
(* Rows as Papa.parse returns them; a field the file has no column for is  *)
(* undefined, held as ""                                                   *)

BlankRow ==
    [Symbol |-> "", Action |-> "", Description |-> "", TradeDate |-> "",
     Amount |-> "", Quantity |-> "", DateAcquired |-> "", DateSold |-> "",
     SalesProceeds |-> "", AdjustCost |-> "", WSLossDisallowed |-> "",
     WashSales |-> ""]

GainLossRow(symbol, acquired, sold, proceeds, cost, wash) ==
    [BlankRow EXCEPT !.Symbol = symbol, !.Quantity = "10", !.DateAcquired = acquired,
                     !.DateSold = sold, !.SalesProceeds = proceeds, !.AdjustCost = cost,
                     !.WSLossDisallowed = "$0.00", !.WashSales = wash]

HistoryRow(symbol, action, description, tradeDate, amount) ==
    [BlankRow EXCEPT !.Symbol = symbol, !.Action = action, !.Description = description,
                     !.TradeDate = tradeDate, !.Amount = amount]

RowAapl == GainLossRow("AAPL", "01/02/2023", "03/04/2023", "$1,500.00", "$1,000.00", "NO")

RowMsft == GainLossRow("MSFT", "VARIOUS", "12/30/2022", "$8.50", "$1.50", "YES")

RowTotal == GainLossRow("Total AAPL", "", "", "$1,500.00", "$1,000.00", "")

RowNoSymbol == GainLossRow("", "", "", "$1,500.00", "$1,000.00", "")

RowBadSold == GainLossRow("MSFT", "01/02/2023", "13/45/2023", "$8.50", "$1.50", "NO")

RowShort == GainLossRow("MSFT", "01/02/2023", "12/30/2022", "$8.50", "$1.50", "NO")

RowMsftLate == GainLossRow("MSFT", "01/02/2023", "03/04/2023", "$8.50", "$1.50", "YES")

RowNoAcquired == GainLossRow("AAPL", "", "03/04/2023", "$1,500.00", "$1,000.00", "NO")

RowNoSold == GainLossRow("AAPL", "01/02/2023", "", "$8.50", "$1.50", "NO")

RowDividendReversal ==
    HistoryRow("AAPL", "Dividend", "NON-RES TAX WITHHELD $1.50", "2023-06-15", "-$12.00")

RowDividend ==
    HistoryRow("AAPL", "Dividend", "NON-RES TAX WITHHELD $1.50", "2023-06-15", "$8.50")

RowDividendEarly ==
    HistoryRow("MSFT", "Dividend", "CASH DIV ON 10 SHS", "2022-12-30", "$1.50")

RowDividendLate ==
    HistoryRow("MSFT", "Dividend", "CASH DIV ON 10 SHS", "2023-07-20", "$1,000.00")

RowDividendNoAmount ==
    HistoryRow("MSFT", "Dividend", "CASH DIV ON 10 SHS", "2022-12-30", "")

RowDividendNoDate ==
    HistoryRow("MSFT", "Dividend", "CASH DIV ON 10 SHS", "", "$1.50")

RowInterest ==
    HistoryRow("", "Interest", "INTEREST ON CREDIT BALANCE", "2022-12-30", "0.37")

RowBuy == HistoryRow("AAPL", "Buy", "CASH DIV ON 10 SHS", "2023-06-15", "-$12.00")

-----------------------------------------------------------------------------
(* Files, by name: the text's lines up to and including the header line,   *)
(* and the rows Papa.parse returns for the text from the header line on    *)

HeaderGainLoss ==
    "Symbol,Quantity,Date Acquired,Date Sold,Sales Proceeds,Adjust Cost,WS Loss Disallowed,Wash Sales"

HeaderHistory == "Symbol,Action,Description,TradeDate,Amount"

HeaderNoAmount == "\"Symbol\",\"Action\",\"Description\",\"TradeDate\""

HeaderOther == "Symbol,Name,Price"

LineTitle == " Account History "

FileTable ==
    ("GainLoss.csv" :>
        [lines |-> <<LineTitle, HeaderGainLoss>>,
         data |-> <<RowAapl, RowMsft, RowTotal, RowNoSymbol>>]) @@
    ("GainLossTotals.csv" :> [lines |-> <<HeaderGainLoss>>, data |-> <<RowTotal>>]) @@
    ("GainLossShort.csv" :> [lines |-> <<HeaderGainLoss>>, data |-> <<RowShort>>]) @@
    ("GainLossBadDate.csv" :> [lines |-> <<HeaderGainLoss>>, data |-> <<RowBadSold>>]) @@
    ("History.csv" :>
        [lines |-> <<LineTitle, HeaderHistory>>,
         data |-> <<RowBuy, RowDividend, RowDividendEarly, RowInterest>>]) @@
    ("HistoryInterestOnly.csv" :> [lines |-> <<HeaderHistory>>, data |-> <<RowInterest>>]) @@
    ("HistoryNoAmount.csv" :>
        [lines |-> <<HeaderNoAmount>>, data |-> <<RowDividendNoDate>>]) @@
    ("Other.csv" :> [lines |-> <<HeaderOther>>, data |-> <<BlankRow>>]) @@
    ("NoHeader.csv" :> [lines |-> <<LineTitle>>, data |-> <<>>]) @@
    ("Empty.csv" :> [lines |-> <<>>, data |-> <<>>])

Files == DOMAIN FileTable

-----------------------------------------------------------------------------
(* The rate provider: the rates it has published, and its answers *)

PublishedRates ==
    (<<2022, 12, 20>> :> 1320) @@ (<<2022, 12, 30>> :> 1310) @@
    (<<2023, 1, 2>> :> 1300) @@ (<<2023, 3, 3>> :> 1400) @@
    (<<2023, 6, 15>> :> 1452) @@ (<<2023, 7, 20>> :> 1410)

\* rates the provider may fail to have for a day
UnsureKeys == {<<2023, 3, 3>>}

KeyDay(key) == DaysFromCivil(key[1], key[2], key[3])

\* the answers to a request for the days fetchStart..fetchEnd (both 'yyyy-MM-dd')
Answers(fetchStart, fetchEnd) ==
    LET inRange == {k \in DOMAIN PublishedRates :
                        KeyDay(fetchStart) <= KeyDay(k) /\ KeyDay(k) <= KeyDay(fetchEnd)}
    IN  {[k \in inRange \ drop |-> PublishedRates[k]] : drop \in SUBSET UnsureKeys}

\* format(new Date(), 'yyyy-MM-dd') as the page is used
Today == <<CurrentYear, 11, 1>>

-----------------------------------------------------------------------------
(* The App component: state and event handlers *)

\* bound: FileReader reads that may be in flight at once
MaxInflight == 1

\* a raw collection: null, or an array of rows
Null == [isNull |-> TRUE, rows |-> <<>>]

Rows(rs) == [isNull |-> FALSE, rows |-> rs]

\* RatesMap = {}
EmptyRates == [k \in {} |-> 0]

\* error === null
NoError == "null"

\* the message set at line 545 (file is empty)
ErrEmptyFile == "empty file"
\* line 557 (header not found)
ErrNoHeader == "header (Symbol) not found"
\* line 584
ErrNoGainLoss == "no valid data (Gain/Loss)"
\* line 593
ErrNoDividend == "no dividend data (Action=Dividend)"
\* line 618
ErrNoDividendNoInterest == "neither Dividend nor Interest"
\* line 630
ErrUnknownFormat == "unknown CSV format"
\* line 669
ErrNoDates == "no date data"
\* line 677
ErrFetchFailed == "rate fetch failed"
\* the message of the RangeError format() throws on the Invalid Date
ErrInvalidTime == "Invalid time value"

NoFetch ==
    [active |-> FALSE, gainLossRaw |-> Null, dividendRaw |-> Null, interestRaw |-> Null,
     dates |-> {}, fetchStart |-> <<>>, fetchEnd |-> <<>>]

\* no request has been answered yet
NoRange == [fetchStart |-> <<>>, fetchEnd |-> <<>>]

\* the state of the useState hooks after the first render
AppInit ==
    /\ gainLossData = <<>>
    /\ dividendData = <<>>
    /\ interestData = <<>>
    /\ gainLossRaw = Null
    /\ dividendRaw = Null
    /\ interestRaw = Null
    /\ rates = EmptyRates
    /\ loading = FALSE
    /\ fetchingRates = FALSE
    /\ error = NoError
    /\ selectedYear = CurrentYear
    /\ activeTab = "capital"
    /\ pendingLoads = EmptyBag
    /\ pendingFetch = NoFetch
    /\ fetchedRange = NoRange

HarnessIdle ==
    /\ probe = [date |-> NullDate, done |-> FALSE, out |-> [rate |-> 0, dateUsed |-> NotFound, lookups |-> 0]]
    /\ calcRuns = [gainLoss |-> 0, dividend |-> 0, interest |-> 0]

Init == AppInit /\ HarnessIdle

\* JSX: the upload section is rendered
UploadSectionShown == Len(gainLossData) = 0 /\ Len(dividendData) = 0

\* JSX: the action bar for loading more files is rendered, with a file input in it
ActionBarInputShown ==
    /\ ~gainLossRaw.isNull \/ ~dividendRaw.isNull
    /\ ~HasRate(rates, Today)
    /\ ~loading
    /\ dividendRaw.isNull \/ interestRaw.isNull \/ gainLossRaw.isNull

\* a faulty variant of FetchButtonEnabled: the button is not disabled while fetching
FetchButtonEnabledWhileFetching ==
    /\ ~gainLossRaw.isNull \/ ~dividendRaw.isNull
    /\ DOMAIN rates = {}

\* JSX: the fetch button is rendered and enabled
FetchButtonEnabled ==
    /\ ~gainLossRaw.isNull \/ ~dividendRaw.isNull
    /\ DOMAIN rates = {}
    /\ ~fetchingRates

\* JSX: the year select is rendered
YearSelectShown == Len(gainLossData) > 0 \/ Len(dividendData) > 0

\* const handleFileUpload = (e) => ...: a file is chosen in a file input
handleFileUpload(file) ==
    /\ (UploadSectionShown /\ ~loading) \/ ActionBarInputShown
    /\ BagCardinality(pendingLoads) < MaxInflight
    /\ loading' = TRUE
    /\ error' = NoError
    /\ pendingLoads' = pendingLoads (+) SetToBag({[file |-> file, rates |-> rates]})
    /\ UNCHANGED <<gainLossData, dividendData, interestData, gainLossRaw, dividendRaw,
                   interestRaw, rates, fetchingRates, selectedYear, activeTab,
                   pendingFetch, fetchedRange, probe, calcRuns>>

\* const onDrop = (e) => ...: a file is dropped on the upload section
onDrop(file) ==
    /\ UploadSectionShown /\ ~loading
    /\ BagCardinality(pendingLoads) < MaxInflight
    /\ pendingLoads' = pendingLoads (+) SetToBag({[file |-> file, rates |-> rates]})
    /\ UNCHANGED <<gainLossData, dividendData, interestData, gainLossRaw, dividendRaw,
                   interestRaw, rates, loading, fetchingRates, error, selectedYear,
                   activeTab, pendingFetch, fetchedRange, probe, calcRuns>>

\* (l => l.trim()): the text without its leading and trailing blanks
Trim(str) ==
    LET lead  == RunLen(str, 1, {" "})
        inner == {i \in 1..Len(str) : str[i] # " "}
        last  == IF inner = {} THEN 0 ELSE CHOOSE i \in inner : \A j \in inner : j <= i
    IN  IF inner = {} THEN <<>> ELSE SubSeq(str, lead + 1, last)

\* text.split('\n').map(l => l.trim()).filter(l => l.length > 0)
TrimmedLines(file) ==
    SelectSeq([i \in 1..Len(file.lines) |-> Trim(Chars(file.lines[i]))], LAMBDA l : Len(l) > 0)

IsHeaderLine(line) ==
    LET lower == toLowerCase(line) IN
    \/ startsWith(lower, <<"s", "y", "m", "b", "o", "l">>)
    \/ startsWith(lower, <<"\"", "s", "y", "m", "b", "o", "l", "\"">>)

\* lines.findIndex(...): 1-based, 0 for "not found"
HeaderIndex(lines) ==
    LET hits == {i \in 1..Len(lines) : IsHeaderLine(lines[i])} IN
    IF hits = {} THEN 0 ELSE CHOOSE i \in hits : \A j \in hits : i <= j

\* a faulty variant of FileTypeOf: a header with a date column is a Gain/Loss header
FileTypeOfByDate(line) ==
    LET headerLine == toLowerCase(line) IN
    IF includes(headerLine, <<"d", "a", "t", "e">>)
    THEN "GAIN_LOSS"
    ELSE IF /\ includes(headerLine, <<"a", "c", "t", "i", "o", "n">>)
            /\ includes(headerLine, <<"a", "m", "o", "u", "n", "t">>)
    THEN "HISTORY"
    ELSE "UNKNOWN"

\* let fileType: FileType, decided from the header line
FileTypeOf(line) ==
    LET headerLine == toLowerCase(line) IN
    IF includes(headerLine, <<"s", "a", "l", "e", "s", " ", "p", "r", "o", "c", "e", "e", "d", "s">>)
    THEN "GAIN_LOSS"
    ELSE IF /\ includes(headerLine, <<"a", "c", "t", "i", "o", "n">>)
            /\ includes(headerLine, <<"a", "m", "o", "u", "n", "t">>)
    THEN "HISTORY"
    ELSE "UNKNOWN"

\* results.data.filter(r => r.Action === action)
RowsWithAction(data, action) == SelectSeq(data, LAMBDA r : r.Action = action)

\* a faulty variant of GainLossRowsOf: only the rows without a symbol are discarded
GainLossRowsOfAnySymbol(data) == SelectSeq(data, LAMBDA r : r.Symbol # "")

\* results.data.filter(r => r.Symbol && !r.Symbol.startsWith('Total'))
GainLossRowsOf(data) ==
    SelectSeq(data, LAMBDA r : r.Symbol # "" /\ ~startsWith(Chars(r.Symbol), <<"T", "o", "t", "a", "l">>))

\* the state a handler reads and writes, as a record
Snapshot ==
    [gainLossData |-> gainLossData, dividendData |-> dividendData,
     interestData |-> interestData, gainLossRaw |-> gainLossRaw,
     dividendRaw |-> dividendRaw, interestRaw |-> interestRaw,
     activeTab |-> activeTab, error |-> error, loading |-> loading]

\* a faulty variant of CompleteGainLoss: the rows are stored before they are counted
CompleteGainLossStoring(st, data, closure) ==
    LET rows == GainLossRowsOf(data) IN
    IF Len(rows) = 0
    THEN [st EXCEPT !.gainLossRaw = Rows(rows), !.error = ErrNoGainLoss, !.loading = FALSE]
    ELSE LET st1 == [st EXCEPT !.gainLossRaw = Rows(rows), !.activeTab = "capital"] IN
         IF DOMAIN closure = {} THEN [st1 EXCEPT !.loading = FALSE]
         ELSE IF GainLossThrows(rows) THEN st1
         ELSE [st1 EXCEPT !.gainLossData = calculateGainLoss(rows, closure),
                          !.loading = FALSE]

\* complete: (results) => ... for fileType === 'GAIN_LOSS'; `closure` is the rates
\* of the render the file was chosen in. A calculator that throws ends the callback.
CompleteGainLoss(st, data, closure) ==
    LET rows == GainLossRowsOf(data) IN
    IF Len(rows) = 0 THEN [st EXCEPT !.error = ErrNoGainLoss, !.loading = FALSE]
    ELSE LET st1 == [st EXCEPT !.gainLossRaw = Rows(rows), !.activeTab = "capital"] IN
         IF DOMAIN closure = {} THEN [st1 EXCEPT !.loading = FALSE]
         ELSE IF GainLossThrows(rows) THEN st1
         ELSE [st1 EXCEPT !.gainLossData = calculateGainLoss(rows, closure),
                          !.loading = FALSE]

\* complete, 'HISTORY': if (interestRows.length > 0) calculateInterests(interestRows, rates)
\* and the setLoading(false) that ends the callback, st being the state before them
CompleteInterests(st, interestRows, closure) ==
    IF Len(interestRows) = 0 THEN [st EXCEPT !.loading = FALSE]
    ELSE IF HistoryThrows(interestRows) THEN st
    ELSE [st EXCEPT !.interestData = calculateInterests(interestRows, closure),
                    !.loading = FALSE]

\* complete: (results) => ... for fileType === 'HISTORY'
CompleteHistory(st, data, closure) ==
    LET rows         == RowsWithAction(data, "Dividend")
        interestRows == RowsWithAction(data, "Interest")
    IN
    IF Len(rows) = 0 THEN [st EXCEPT !.error = ErrNoDividend, !.loading = FALSE]
    ELSE LET st1 == [st EXCEPT !.dividendRaw = Rows(rows), !.activeTab = "dividend"]
             st2 == IF Len(interestRows) > 0
                    THEN [st1 EXCEPT !.interestRaw = Rows(interestRows)] ELSE st1
         IN  IF DOMAIN closure = {} THEN [st2 EXCEPT !.loading = FALSE]
             ELSE IF HistoryThrows(rows) THEN st2
             ELSE CompleteInterests(
                      [st2 EXCEPT !.dividendData = calculateDividends(rows, closure)],
                      interestRows, closure)

\* complete: (results) => ... for fileType === 'UNKNOWN' (fallback on the first row)
CompleteUnknown(st, data) ==
    IF Len(data) > 0 /\ data[1].SalesProceeds # ""
    THEN [st EXCEPT !.gainLossRaw = Rows(SelectSeq(data, LAMBDA r : r.Symbol # "")),
                    !.activeTab = "capital", !.loading = FALSE]
    ELSE IF Len(data) > 0 /\ data[1].Action # ""
    THEN LET divRows == RowsWithAction(data, "Dividend")
             intRows == RowsWithAction(data, "Interest")
         IN  IF Len(divRows) = 0 /\ Len(intRows) = 0
             THEN [st EXCEPT !.error = ErrNoDividendNoInterest, !.loading = FALSE]
             ELSE [st EXCEPT
                     !.dividendRaw = IF Len(divRows) > 0 THEN Rows(divRows) ELSE @,
                     !.interestRaw = IF Len(intRows) > 0 THEN Rows(intRows) ELSE @,
                     !.activeTab = IF Len(divRows) > 0 THEN "dividend" ELSE "interest",
                     !.loading = FALSE]
    ELSE [st EXCEPT !.error = ErrUnknownFormat, !.loading = FALSE]

\* reader.onload up to Papa.parse: what the text of the file leads to
ClassifyFile(file) ==
    IF file.lines = <<>> THEN "EMPTY"
    ELSE LET lines       == TrimmedLines(file)
             headerIndex == HeaderIndex(lines)
         IN  IF headerIndex = 0 THEN "NO_HEADER" ELSE FileTypeOf(lines[headerIndex])

\* ClassifyFile on the files of the model, evaluated once
FileClass == [name \in Files |-> ClassifyFile(FileTable[name])]

\* reader.onload = (event) => ...: the whole callback, Papa.parse's complete included
processFile(st, name, closure) ==
    LET class == FileClass[name]
        data  == FileTable[name].data
    IN  IF class = "EMPTY" THEN [st EXCEPT !.error = ErrEmptyFile, !.loading = FALSE]
        ELSE IF class = "NO_HEADER" THEN [st EXCEPT !.error = ErrNoHeader, !.loading = FALSE]
        ELSE IF class = "GAIN_LOSS" THEN CompleteGainLoss(st, data, closure)
        ELSE IF class = "HISTORY" THEN CompleteHistory(st, data, closure)
        ELSE CompleteUnknown(st, data)

\* a FileReader read completes
FileLoaded(load) ==
    /\ BagIn(load, pendingLoads)
    /\ \E st \in {processFile(Snapshot, load.file, load.rates)} :
        /\ gainLossData' = st.gainLossData
        /\ dividendData' = st.dividendData
        /\ interestData' = st.interestData
        /\ gainLossRaw' = st.gainLossRaw
        /\ dividendRaw' = st.dividendRaw
        /\ interestRaw' = st.interestRaw
        /\ activeTab' = st.activeTab
        /\ error' = st.error
        /\ loading' = st.loading
    /\ pendingLoads' = pendingLoads (-) SetToBag({load})
    /\ UNCHANGED <<rates, fetchingRates, selectedYear, pendingFetch, fetchedRange, probe, calcRuns>>

\* the dates fetchExchangeRates collects from the raw rows (Invalid Date included)
CollectDates(glRaw, divRaw, intRaw) ==
    ({DateOfText[glRaw.rows[i].DateAcquired] : i \in 1..Len(glRaw.rows)}
     \cup {DateOfText[glRaw.rows[i].DateSold] : i \in 1..Len(glRaw.rows)}
     \cup {DateOfText[divRaw.rows[i].TradeDate] : i \in 1..Len(divRaw.rows)}
     \cup {DateOfText[intRaw.rows[i].TradeDate] : i \in 1..Len(intRaw.rows)})
    \ {NullDate}

\* min(dates)
MinDate(dates) == CHOOSE d \in dates : \A e \in dates : d <= e

\* max(dates)
MaxDate(dates) == CHOOSE d \in dates : \A e \in dates : e <= d

\* Math.max(...Array.from(years))
MaxYear(dates) ==
    LET years == {getFullYear(d) : d \in dates} IN
    CHOOSE y \in years : \A z \in years : z <= y

\* const fetchExchangeRates = async () => ...: from the click to `await fetch(...)`
fetchExchangeRates ==
    /\ FetchButtonEnabled
    /\ LET dates == CollectDates(gainLossRaw, dividendRaw, interestRaw) IN
       IF dates = {}
       THEN /\ error' = ErrNoDates
            /\ UNCHANGED <<fetchingRates, pendingFetch>>
       ELSE IF InvalidDate \in dates
       THEN /\ error' = ErrInvalidTime
            /\ UNCHANGED <<fetchingRates, pendingFetch>>
       ELSE /\ error' = NoError
            /\ fetchingRates' = TRUE
            /\ pendingFetch' =
                 [active |-> TRUE, gainLossRaw |-> gainLossRaw,
                  dividendRaw |-> dividendRaw, interestRaw |-> interestRaw,
                  dates |-> dates,
                  fetchStart |-> format(subDays(MinDate(dates), FetchBackDays)),
                  fetchEnd |-> format(MaxDate(dates))]
    /\ UNCHANGED <<gainLossData, dividendData, interestData, gainLossRaw, dividendRaw,
                   interestRaw, rates, loading, selectedYear, activeTab, pendingLoads,
                   fetchedRange, probe, calcRuns>>

\* fetchExchangeRates after `await`: the request failed or the response is not ok
FetchFailed ==
    /\ pendingFetch.active
    /\ error' = ErrFetchFailed
    /\ fetchingRates' = FALSE
    /\ pendingFetch' = NoFetch
    /\ UNCHANGED <<gainLossData, dividendData, interestData, gainLossRaw, dividendRaw,
                   interestRaw, rates, loading, selectedYear, activeTab, pendingLoads,
                   fetchedRange, probe, calcRuns>>

\* if (interestRaw) calculateInterests(interestRaw, ratesMap)
ApplyInterests(st, f, ratesMap) ==
    IF f.interestRaw.isNull THEN st
    ELSE IF HistoryThrows(f.interestRaw.rows) THEN [st EXCEPT !.error = ErrInvalidTime]
    ELSE [st EXCEPT !.interestData = calculateInterests(f.interestRaw.rows, ratesMap)]

\* if (dividendRaw) calculateDividends(dividendRaw, ratesMap), and what follows it
ApplyDividends(st, f, ratesMap) ==
    IF f.dividendRaw.isNull THEN ApplyInterests(st, f, ratesMap)
    ELSE IF HistoryThrows(f.dividendRaw.rows) THEN [st EXCEPT !.error = ErrInvalidTime]
    ELSE ApplyInterests(
             [st EXCEPT !.dividendData = calculateDividends(f.dividendRaw.rows, ratesMap)],
             f, ratesMap)

\* fetchExchangeRates after `await`: setRates, the three calculators on the raw
\* collections of the closure, the year; a calculator that throws lands in catch
ApplyRates(st, f, ratesMap) ==
    IF f.gainLossRaw.isNull THEN ApplyDividends(st, f, ratesMap)
    ELSE IF GainLossThrows(f.gainLossRaw.rows) THEN [st EXCEPT !.error = ErrInvalidTime]
    ELSE ApplyDividends(
             [st EXCEPT !.gainLossData = calculateGainLoss(f.gainLossRaw.rows, ratesMap)],
             f, ratesMap)

\* whether ApplyRates reaches "Auto Set Year"
ReachesAutoSetYear(f) ==
    /\ f.gainLossRaw.isNull \/ ~GainLossThrows(f.gainLossRaw.rows)
    /\ f.dividendRaw.isNull \/ ~HistoryThrows(f.dividendRaw.rows)
    /\ f.interestRaw.isNull \/ ~HistoryThrows(f.interestRaw.rows)

FetchSucceeded ==
    /\ pendingFetch.active
    /\ \E ratesMap \in Answers(pendingFetch.fetchStart, pendingFetch.fetchEnd) :
         \E st \in {ApplyRates(Snapshot, pendingFetch, ratesMap)} :
         /\ rates' = ratesMap
         /\ gainLossData' = st.gainLossData
         /\ dividendData' = st.dividendData
         /\ interestData' = st.interestData
         /\ error' = st.error
         /\ selectedYear' = IF ReachesAutoSetYear(pendingFetch)
                            THEN MaxYear(pendingFetch.dates) ELSE selectedYear
    /\ fetchingRates' = FALSE
    /\ fetchedRange' = [fetchStart |-> pendingFetch.fetchStart,
                        fetchEnd |-> pendingFetch.fetchEnd]
    /\ pendingFetch' = NoFetch
    /\ UNCHANGED <<gainLossRaw, dividendRaw, interestRaw, loading, activeTab,
                   pendingLoads, probe, calcRuns>>

\* a faulty variant of selectYear: the derived records of the other years are dropped
selectYearDropping(y) ==
    /\ YearSelectShown
    /\ \E years \in {availableYears} : \E i \in 1..Len(years) : years[i] = y
    /\ y # selectedYear
    /\ selectedYear' = y
    /\ gainLossData' = FilterGainLoss(gainLossData, y)
    /\ dividendData' = FilterByDate(dividendData, y)
    /\ interestData' = FilterByDate(interestData, y)
    /\ UNCHANGED <<gainLossRaw, dividendRaw,
                   interestRaw, rates, loading, fetchingRates, error, activeTab,
                   pendingLoads, pendingFetch, fetchedRange, probe, calcRuns>>

\* <select value={selectedYear} onChange={(e) => setSelectedYear(Number(e.target.value))}>
selectYear(y) ==
    /\ YearSelectShown
    /\ \E years \in {availableYears} : \E i \in 1..Len(years) : years[i] = y
    /\ y # selectedYear
    /\ selectedYear' = y
    /\ UNCHANGED <<gainLossData, dividendData, interestData, gainLossRaw, dividendRaw,
                   interestRaw, rates, loading, fetchingRates, error, activeTab,
                   pendingLoads, pendingFetch, fetchedRange, probe, calcRuns>>

\* JSX: the tab button of a category is rendered
TabShown(tab) ==
    \/ tab = "capital" /\ ~gainLossRaw.isNull
    \/ tab = "dividend" /\ ~dividendRaw.isNull
    \/ tab = "interest" /\ ~interestRaw.isNull

\* onClick={() => setActiveTab(tab)}
setActiveTab(tab) ==
    /\ TabShown(tab)
    /\ tab # activeTab
    /\ activeTab' = tab
    /\ UNCHANGED <<gainLossData, dividendData, interestData, gainLossRaw, dividendRaw,
                   interestRaw, rates, loading, fetchingRates, error, selectedYear,
                   pendingLoads, pendingFetch, fetchedRange, probe, calcRuns>>

\* the years a select could offer in some state
Years == {2022, 2023, CurrentYear}

Next ==
    \/ \E file \in Files : handleFileUpload(file)
    \/ \E file \in Files : onDrop(file)
    \/ \E load \in BagToSet(pendingLoads) : FileLoaded(load)
    \/ fetchExchangeRates
    \/ FetchFailed
    \/ FetchSucceeded
    \/ \E y \in Years : selectYear(y)
    \/ \E tab \in {"capital", "dividend", "interest"} : setActiveTab(tab)

Spec == Init /\ [][Next]_vars

\* no file is being read and no rate request is awaiting its answer
Quiescent == pendingLoads = EmptyBag /\ ~pendingFetch.active

\* C4 as claimed: in every state with no file load and no rate fetch in progress and
\* a non-empty rate table, each category whose raw rows are present has as derived
\* collection the output of its calculator on the current raw rows and the current
\* rate table (rows on which the calculator throws have no output and are left out)
C4_RecomputeOnChange ==
    (Quiescent /\ DOMAIN rates # {}) =>
        /\ (~gainLossRaw.isNull /\ ~GainLossThrows(gainLossRaw.rows))
              => gainLossData = calculateGainLoss(gainLossRaw.rows, rates)
        /\ (~dividendRaw.isNull /\ ~HistoryThrows(dividendRaw.rows))
              => dividendData = calculateDividends(dividendRaw.rows, rates)
        /\ (~interestRaw.isNull /\ ~HistoryThrows(interestRaw.rows))
              => interestData = calculateInterests(interestRaw.rows, rates)

\* the records of `data` at the indices in `keep`, in the order of `data`
RecordsAt(data, keep) == [k \in 1..Cardinality(keep) |-> data[NthOf(keep, k)]]

\* C9: each filtered view holds exactly the records of its derived collection whose
\* governing date (dateSold for capital gains, date for dividends and interest) is
\* in the selected year, in the order of the derived collection
C9_YearFilter ==
    /\ filteredGainLoss =
         RecordsAt(gainLossData,
                   {i \in 1..Len(gainLossData) :
                        getFullYear(gainLossData[i].dateSold) = selectedYear})
    /\ filteredDividends =
         RecordsAt(dividendData,
                   {i \in 1..Len(dividendData) :
                        getFullYear(dividendData[i].date) = selectedYear})
    /\ filteredInterests =
         RecordsAt(interestData,
                   {i \in 1..Len(interestData) :
                        getFullYear(interestData[i].date) = selectedYear})

\* the capital-gain view and the dividend view each hold the first of two records
\* only, the interest view none of one
C9_Witness ==
    /\ Len(gainLossData) = 2 /\ filteredGainLoss = <<gainLossData[1]>>
    /\ Len(dividendData) = 2 /\ filteredDividends = <<dividendData[1]>>
    /\ Len(interestData) = 1 /\ filteredInterests = <<>>

\* C10: a change of the selected year through the year select leaves the raw
\* collections, the derived collections, the rate table and all other state as they
\* are; the views become the filter of the same derived collections by the new year
C10_YearChangeFrame ==
    [][(selectedYear' # selectedYear /\ pendingFetch' = pendingFetch)
         => /\ UNCHANGED <<gainLossRaw, dividendRaw, interestRaw>>
            /\ UNCHANGED <<gainLossData, dividendData, interestData>>
            /\ UNCHANGED rates
            /\ UNCHANGED <<loading, fetchingRates, error, activeTab, pendingLoads>>
            /\ filteredGainLoss' = FilterGainLoss(gainLossData, selectedYear')
            /\ filteredDividends' = FilterByDate(dividendData, selectedYear')
            /\ filteredInterests' = FilterByDate(interestData, selectedYear')]_vars

\* the year select shows the earlier of two years of derived records, with rates loaded
C10_Witness ==
    /\ DOMAIN rates # {}
    /\ selectedYear = 2022
    /\ {2022, 2023} \subseteq YearsOfData
    /\ Len(filteredGainLoss) = 1 /\ Len(gainLossData) = 2

\* the step completes the read `load`
Completes(load) ==
    BagIn(load, pendingLoads) /\ pendingLoads' = pendingLoads (-) SetToBag({load})

\* the header line of each file in lower case: its first line that begins with
\* symbol or "symbol"; <<>> for a file without one
HeaderText ==
    [name \in Files |->
        LET lines == TrimmedLines(FileTable[name])
            hits  == {i \in 1..Len(lines) : IsHeaderLine(lines[i])}
        IN  IF hits = {} THEN <<>>
            ELSE toLowerCase(lines[CHOOSE i \in hits : \A j \in hits : i <= j])]

HasSalesProceeds ==
    [name \in Files |->
        includes(HeaderText[name],
                 <<"s", "a", "l", "e", "s", " ", "p", "r", "o", "c", "e", "e", "d", "s">>)]

HasActionAndAmount ==
    [name \in Files |->
        /\ includes(HeaderText[name], <<"a", "c", "t", "i", "o", "n">>)
        /\ includes(HeaderText[name], <<"a", "m", "o", "u", "n", "t">>)]

\* C11: a read of a file whose header contains 'sales proceeds' changes the
\* capital-gains collections only (the raw one to the file's rows); a read of a file
\* whose header does not but contains 'action' and 'amount' changes the dividend and
\* interest collections only; no read changes collections of both schemas
C11_Classification ==
    [][\A load \in BagToSet(pendingLoads) :
         Completes(load) =>
           /\ HasSalesProceeds[load.file] =>
                /\ UNCHANGED <<dividendRaw, interestRaw, dividendData, interestData>>
                /\ gainLossRaw' \in
                     {gainLossRaw, Rows(GainLossRowsOf(FileTable[load.file].data))}
           /\ (~HasSalesProceeds[load.file] /\ HasActionAndAmount[load.file]) =>
                /\ UNCHANGED <<gainLossRaw, gainLossData>>
                /\ dividendRaw' \in
                     {dividendRaw,
                      Rows(RowsWithAction(FileTable[load.file].data, "Dividend"))}
                /\ interestRaw' \in
                     {interestRaw,
                      Rows(RowsWithAction(FileTable[load.file].data, "Interest"))}
           /\ \/ UNCHANGED <<gainLossRaw, gainLossData>>
              \/ UNCHANGED <<dividendRaw, interestRaw, dividendData, interestData>>]_vars

\* a Gain/Loss file and a history file, each with a title line before its header,
\* have been read into their collections
C11_Witness ==
    /\ gainLossRaw = Rows(<<RowAapl, RowMsft>>)
    /\ dividendRaw = Rows(<<RowDividend, RowDividendEarly>>)
    /\ interestRaw = Rows(<<RowInterest>>)
    /\ pendingLoads = EmptyBag

\* the record carries the 'rate lookup failed' annotation
RateErrorNoted(record) == "notes" \in DOMAIN record /\ record.notes = "rateError"

\* C12 as claimed: every derived record one of whose rates was resolved to 0 (the
\* rate of the date sold or of the acquisition date of a capital gain, the rate of
\* a dividend or of an interest) carries the 'rate lookup failed' annotation
C12_RateFailureNoted ==
    /\ \A i \in 1..Len(gainLossData) :
         (gainLossData[i].rateSold = 0 \/ gainLossData[i].rateAcquired = 0)
            => RateErrorNoted(gainLossData[i])
    /\ \A i \in 1..Len(dividendData) :
         dividendData[i].rate = 0 => RateErrorNoted(dividendData[i])
    /\ \A i \in 1..Len(interestData) :
         interestData[i].rate = 0 => RateErrorNoted(interestData[i])

\* the file is of the history schema (by its header, or by the Action field of its
\* first row) and has a dividend or an interest row
DeliversHistory(name) ==
    /\ ~HasSalesProceeds[name]
    /\ FileClass[name] \in {"HISTORY", "UNKNOWN"}
    /\ \E i \in 1..Len(FileTable[name].data) :
         FileTable[name].data[i].Action \in {"Dividend", "Interest"}

\* C14 as claimed: after the read of a history file the raw dividend collection is
\* the file's rows with Action 'Dividend' and the raw interest collection the file's
\* rows with Action 'Interest', in the file's order, whether or not the other subset
\* is empty (an absent collection counts as empty); no earlier row remains
C14_HistoryPartition ==
    [][\A load \in BagToSet(pendingLoads) :
         (Completes(load) /\ DeliversHistory(load.file)) =>
            /\ dividendRaw'.rows = RowsWithAction(FileTable[load.file].data, "Dividend")
            /\ interestRaw'.rows = RowsWithAction(FileTable[load.file].data, "Interest")]_vars

\* the message of the failure mode the load of the file ends in: the text is empty,
\* no line starts with Symbol, no row is left after filtering, or the schema is not
\* recognised; NoError for a file whose rows are taken
FailureMessage ==
    [name \in Files |->
    LET data == FileTable[name].data IN
    IF FileTable[name].lines = <<>> THEN ErrEmptyFile
    ELSE IF \A i \in 1..Len(FileTable[name].lines) :
               ~IsHeaderLine(Trim(Chars(FileTable[name].lines[i])))
    THEN ErrNoHeader
    ELSE IF HasSalesProceeds[name]
    THEN IF \A i \in 1..Len(data) :
              data[i].Symbol = "" \/ startsWith(Chars(data[i].Symbol), <<"T", "o", "t", "a", "l">>)
         THEN ErrNoGainLoss ELSE NoError
    ELSE IF HasActionAndAmount[name]
    THEN IF \A i \in 1..Len(data) : data[i].Action # "Dividend"
         THEN ErrNoDividend ELSE NoError
    ELSE IF Len(data) = 0 \/ (data[1].SalesProceeds = "" /\ data[1].Action = "")
    THEN ErrUnknownFormat
    ELSE IF data[1].SalesProceeds = "" /\ \A i \in 1..Len(data) :
                                              data[i].Action \notin {"Dividend", "Interest"}
    THEN ErrNoDividendNoInterest
    ELSE NoError]

\* C15: a file read that ends in a failure mode (empty file, header not found, no
\* row after filtering, unrecognised schema) sets the error to the message of that
\* mode, leaves the raw collections, the derived collections, the rate table and
\* the selected year as they were, and ends with the loading flag cleared
C15_FailedLoad ==
    [][\A load \in BagToSet(pendingLoads) :
         (Completes(load) /\ FailureMessage[load.file] # NoError) =>
            /\ error' = FailureMessage[load.file]
            /\ UNCHANGED <<gainLossRaw, dividendRaw, interestRaw, gainLossData,
                           dividendData, interestData, rates, selectedYear>>
            /\ loading' = FALSE]_vars

\* the failure modes have messages of their own
C15_DistinctMessages ==
    Cardinality({ErrEmptyFile, ErrNoHeader, ErrNoGainLoss, ErrNoDividend,
                 ErrNoDividendNoInterest, ErrUnknownFormat}) = 6

\* a file without a header line has been read after data was loaded and converted:
\* the message is shown, the data is still there and no read is going on
C15_Witness ==
    /\ error = ErrNoHeader
    /\ Len(gainLossData) > 0
    /\ ~gainLossRaw.isNull
    /\ ~loading
    /\ pendingLoads = EmptyBag

DerivedYears ==
    {getFullYear(gainLossData[i].dateSold) : i \in 1..Len(gainLossData)}
    \cup {getFullYear(dividendData[i].date) : i \in 1..Len(dividendData)}
    \cup {getFullYear(interestData[i].date) : i \in 1..Len(interestData)}

\* C17 as claimed: right after a rate request has ended with an answer the selected
\* year is the largest of the years of the governing dates of the derived records;
\* as long as there is no data it is the current year
C17_DefaultYear ==
    /\ []((gainLossRaw.isNull /\ dividendRaw.isNull /\ interestRaw.isNull)
            => selectedYear = CurrentYear)
    /\ [][(pendingFetch.active /\ ~pendingFetch'.active /\ error' = NoError) =>
             /\ DerivedYears' # {}
             /\ \A y \in DerivedYears' : y <= selectedYear'
             /\ selectedYear' \in DerivedYears']_vars

\* C19: in every state the list of available years holds exactly the years of the
\* governing dates of the derived records, each once, in strictly descending order;
\* it is the current year alone when there is no derived record
C19_AvailableYears ==
    \A years \in {availableYears} :
      /\ DerivedYears = {} => years = <<CurrentYear>>
      /\ DerivedYears # {} => {years[i] : i \in 1..Len(years)} = DerivedYears
      /\ \A i \in 1..(Len(years) - 1) : years[i] > years[i + 1]

\* capital gains and dividends have been converted and fall in two years
C19_Witness ==
    /\ Len(gainLossData) > 0
    /\ Len(dividendData) > 0
    /\ availableYears = <<2023, 2022>>

\* C20: summary rows never become transactions: whatever files have been read,
\* classified by their header line or by their first row, the raw capital gains
\* hold no row without a symbol and no row whose symbol begins with 'Total'
C20_NoSummaryRows ==
    \A i \in 1..Len(gainLossRaw.rows) :
      /\ gainLossRaw.rows[i].Symbol # ""
      /\ \A symbol \in {Chars(gainLossRaw.rows[i].Symbol)} :
           Len(symbol) >= 5 => SubSeq(symbol, 1, 5) # <<"T", "o", "t", "a", "l">>

\* the file with two transactions, a 'Total' row and a row without a symbol has
\* been read: the two transactions are the raw capital gains
C20_Witness ==
    /\ ~gainLossRaw.isNull
    /\ gainLossRaw.rows = <<RowAapl, RowMsft>>
    /\ \E i \in 1..Len(FileTable["GainLoss.csv"].data) :
         FileTable["GainLoss.csv"].data[i] = RowTotal

\* the dates that parse among the dates acquired and sold of the raw capital gains
\* and the trade dates of the raw dividends and interest payments
ParseableDates == CollectDates(gainLossRaw, dividendRaw, interestRaw) \ {InvalidDate}

\* the request sent by the step asks for the days from FetchBackDays before the
\* earliest of `dates` to the latest of them, and every key the resolver may try
\* for one of them is a day of that range
RangeCovers(dates) ==
    /\ pendingFetch'.active
    /\ pendingFetch'.fetchStart = format(MinDate(dates) - FetchBackDays)
    /\ pendingFetch'.fetchEnd = format(MaxDate(dates))
    /\ \A d \in dates : \A back \in 0..(MaxAttempts - 1) :
         /\ KeyDay(pendingFetch'.fetchStart) <= KeyDay(format(d - back))
         /\ KeyDay(format(d - back)) <= KeyDay(pendingFetch'.fetchEnd)

\* C23 as claimed: a rate fetch started while some date of the raw rows parses
\* requests the range from 10 days before the earliest such date to the latest,
\* which holds every key the resolver may try for them; one started while no date
\* parses ends with an error, without a request and with the rate table unchanged
C23_FetchRange ==
    [][fetchExchangeRates =>
         \A dates \in {ParseableDates} :
           IF dates = {}
           THEN error' # NoError /\ ~pendingFetch'.active /\ rates' = rates
           ELSE RangeCovers(dates)]_vars

\* the answered request whose rates the table holds asked for a range that begins
\* FetchBackDays or more before the earliest of `dates` and ends at the latest or after
RangeHolds(dates) ==
    \/ dates = {}
    \/ /\ fetchedRange # NoRange
       /\ KeyDay(fetchedRange.fetchStart) <= MinDate(dates) - FetchBackDays
       /\ MaxDate(dates) <= KeyDay(fetchedRange.fetchEnd)

\* C24 as claimed: whatever files have been read and rates fetched, while a derived
\* collection is not empty the rate table was fetched for a range that holds every
\* transaction date of the raw rows of that collection, from 10 days before the
\* earliest on, also when the file was read after the rates had been fetched
C24_RateCoverage ==
    /\ Len(gainLossData) > 0 => RangeHolds(CollectDates(gainLossRaw, Null, Null))
    /\ Len(dividendData) > 0 => RangeHolds(CollectDates(Null, dividendRaw, Null))
    /\ Len(interestData) > 0 => RangeHolds(CollectDates(Null, Null, interestRaw))

\* the step ends the outstanding rate request with an answer
FetchAnswered ==
    /\ pendingFetch.active
    /\ ~pendingFetch'.active
    /\ error' \notin {ErrFetchFailed, ErrInvalidTime}

\* C25 as claimed: when a rate request is answered after a file was read while it
\* was outstanding, the derived collection of each category whose raw rows are no
\* longer those the request was started with is the output of its calculator on
\* the raw rows now present and the rates fetched
C25_LoadDuringFetch ==
    [][FetchAnswered =>
         /\ (gainLossRaw # pendingFetch.gainLossRaw /\ ~GainLossThrows(gainLossRaw.rows))
               => gainLossData' = calculateGainLoss(gainLossRaw.rows, rates')
         /\ (dividendRaw # pendingFetch.dividendRaw /\ ~HistoryThrows(dividendRaw.rows))
               => dividendData' = calculateDividends(dividendRaw.rows, rates')
         /\ (interestRaw # pendingFetch.interestRaw /\ ~HistoryThrows(interestRaw.rows))
               => interestData' = calculateInterests(interestRaw.rows, rates')]_vars

\* C26 as claimed: in every state, whatever files have been read, rates fetched and
\* years selected, the selected year is one of the available years
C26_YearSelectable ==
    \E years \in {availableYears} : \E i \in 1..Len(years) : years[i] = selectedYear

-----------------------------------------------------------------------------
(* The resolver on its own: getRateForDate applied to a date and a table    *)

\* bound: entries of a table the resolver is tried on
MaxEntries == 2

\* the dates looked up: after a new year, after the end of February, in a leap year
ProbeDates ==
    {DaysFromCivil(2023, 1, 5), DaysFromCivil(2023, 3, 4), DaysFromCivil(2024, 3, 5)}

RateValues == {0, 1300, 1452}

\* the keys of the days date, date-1, ..., date-11
KeysNear(date) == {format(date - k) : k \in 0..(MaxAttempts + 1)}

TablesNear(date) ==
    UNION {[K -> RateValues] :
             K \in {S \in SUBSET KeysNear(date) : Cardinality(S) <= MaxEntries}}

InitRate ==
    /\ AppInit
    /\ calcRuns = [gainLoss |-> 0, dividend |-> 0, interest |-> 0]
    /\ \E date \in ProbeDates :
         probe = [date |-> date, done |-> FALSE,
                  out |-> [rate |-> 0, dateUsed |-> NotFound, lookups |-> 0]]

\* the rate table is set to a table around the date
SetTable ==
    /\ ~probe.done
    /\ rates = EmptyRates
    /\ rates' \in TablesNear(probe.date) \ {EmptyRates}
    /\ UNCHANGED <<gainLossData, dividendData, interestData, gainLossRaw, dividendRaw,
                   interestRaw, loading, fetchingRates, error, selectedYear, activeTab,
                   pendingLoads, pendingFetch, fetchedRange, probe, calcRuns>>

\* getRateForDate(date, rates) is called
Resolve ==
    /\ ~probe.done
    /\ probe' = [probe EXCEPT !.done = TRUE, !.out = getRateForDate(probe.date, rates)]
    /\ UNCHANGED <<appVars, calcRuns>>

NextRate == SetTable \/ Resolve

SpecRate == InitRate /\ [][NextRate]_vars

\* the key of the day k days before the date looked up
ProbeKey(k) == format(probe.date - k)

\* C1 as claimed: whenever the table has an entry under the key of the date, whatever
\* the rate stored, getRateForDate returns that rate with dateUsed equal to that key
C1_ExactHitAnyValue ==
    (probe.done /\ ProbeKey(0) \in DOMAIN rates)
        => /\ probe.out.rate = rates[ProbeKey(0)]
           /\ probe.out.dateUsed = ProbeKey(0)

\* C1 amended: whenever the table has a non-zero rate under the key of the date,
\* getRateForDate returns that rate with dateUsed equal to that key, after one lookup
C1_ExactHit ==
    (probe.done /\ ProbeKey(0) \in DOMAIN rates /\ rates[ProbeKey(0)] # 0)
        => /\ probe.out.rate = rates[ProbeKey(0)]
           /\ probe.out.dateUsed = ProbeKey(0)
           /\ probe.out.lookups = 1

\* an exact hit was resolved while an earlier day had another rate
C1_Witness ==
    /\ probe.done
    /\ ProbeKey(0) \in DOMAIN rates /\ rates[ProbeKey(0)] = 1452
    /\ ProbeKey(1) \in DOMAIN rates /\ rates[ProbeKey(1)] = 1300
    /\ probe.out.rate = 1452

\* C2 as claimed: if the table has an entry for date-k (1 <= k <= 9) and none for
\* date, ..., date-k+1, getRateForDate returns the entry of date-k with its key
C2_FallbackAnyValue ==
    \A k \in 1..(MaxAttempts - 1) :
        (/\ probe.done
         /\ ProbeKey(k) \in DOMAIN rates
         /\ \A j \in 0..(k - 1) : ProbeKey(j) \notin DOMAIN rates)
            => /\ probe.out.rate = rates[ProbeKey(k)]
               /\ probe.out.dateUsed = ProbeKey(k)

\* C2 amended: if the table has a non-zero rate for date-k (1 <= k <= 9) and no
\* entry for date, ..., date-k+1, getRateForDate returns the rate of date-k with
\* the key of date-k
C2_Fallback ==
    \A k \in 1..(MaxAttempts - 1) :
        (/\ probe.done
         /\ ProbeKey(k) \in DOMAIN rates /\ rates[ProbeKey(k)] # 0
         /\ \A j \in 0..(k - 1) : ProbeKey(j) \notin DOMAIN rates)
            => /\ probe.out.rate = rates[ProbeKey(k)]
               /\ probe.out.dateUsed = ProbeKey(k)

\* a fallback of 9 days across the end of February was resolved, an older rate
\* being in the table too
C2_Witness ==
    /\ probe.done
    /\ probe.date = DaysFromCivil(2023, 3, 4)
    /\ DOMAIN rates = {<<2023, 2, 23>>, <<2023, 2, 22>>}
    /\ rates[<<2023, 2, 23>>] = 1300 /\ rates[<<2023, 2, 22>>] = 1452
    /\ probe.out.dateUsed = <<2023, 2, 23>>

\* C3: if the table has no entry for any of date, date-1, ..., date-9, getRateForDate
\* returns rate 0 and the "not found" sentinel after exactly 10 lookups
C3_Miss ==
    (probe.done /\ \A j \in 0..(MaxAttempts - 1) : ProbeKey(j) \notin DOMAIN rates)
        => /\ probe.out.rate = 0
           /\ probe.out.dateUsed = NotFound
           /\ probe.out.lookups = MaxAttempts

\* a miss was resolved on a table that has a rate for date-10
C3_Witness ==
    /\ probe.done
    /\ DOMAIN rates = {ProbeKey(MaxAttempts)}
    /\ rates[ProbeKey(MaxAttempts)] = 1300
    /\ probe.out.dateUsed = NotFound

-----------------------------------------------------------------------------
(* The calculators on their own: each applied, and applied again, to raw    *)
(* rows and a rate table drawn from bounded sets                            *)

\* bound: rows of a raw collection the calculators are tried on
MaxRows == 2

\* bound: times a calculator is run on the same inputs
MaxRuns == 2

\* rows setGainLossRaw can hold on which calculateGainLoss returns
CalcGainLossRows ==
    {RowAapl, RowMsft, RowMsftLate, RowNoAcquired, RowNoSold, RowBadSold}

\* dividend rows, and interest rows, setDividendRaw and setInterestRaw can hold
CalcDividendRows == {RowDividend, RowDividendLate, RowDividendNoAmount, RowDividendReversal}

CalcInterestRows == {RowInterest}

\* the sequences of at most MaxRows rows
SeqsUpTo(S) == UNION {[1..n -> S] : n \in 0..MaxRows}

\* a table with the rates on the very days of the transactions, but for 2022-12-30
ExampleRates ==
    (<<2022, 12, 29>> :> 1452) @@ (<<2023, 1, 2>> :> 1300) @@
    (<<2023, 3, 4>> :> 1400) @@ (<<2023, 6, 15>> :> 1452)

CalcTables == {EmptyRates, PublishedRates, ExampleRates}

\* one category has raw rows, and there is a rate table
InitCalc ==
    /\ gainLossData = <<>> /\ dividendData = <<>> /\ interestData = <<>>
    /\ \E category \in {"capital", "dividend", "interest"} :
         /\ gainLossRaw \in IF category = "capital"
                            THEN {Rows(rs) : rs \in SeqsUpTo(CalcGainLossRows)} ELSE {Null}
         /\ dividendRaw \in IF category = "dividend"
                            THEN {Rows(rs) : rs \in SeqsUpTo(CalcDividendRows)} ELSE {Null}
         /\ interestRaw \in IF category = "interest"
                            THEN {Rows(rs) : rs \in SeqsUpTo(CalcInterestRows)} ELSE {Null}
    /\ rates \in CalcTables
    /\ loading = FALSE /\ fetchingRates = FALSE /\ error = NoError
    /\ selectedYear = CurrentYear
    /\ activeTab = "capital"
    /\ pendingLoads = EmptyBag /\ pendingFetch = NoFetch /\ fetchedRange = NoRange
    /\ HarnessIdle

\* calculateGainLoss(gainLossRaw, rates); when it throws, setGainLossData is not reached
RunGainLoss ==
    /\ ~gainLossRaw.isNull
    /\ calcRuns.gainLoss < MaxRuns
    /\ gainLossData' = IF GainLossThrows(gainLossRaw.rows) THEN gainLossData
                       ELSE calculateGainLoss(gainLossRaw.rows, rates)
    /\ calcRuns' = [calcRuns EXCEPT !.gainLoss = @ + 1]
    /\ UNCHANGED <<dividendData, interestData, gainLossRaw, dividendRaw, interestRaw,
                   rates, loading, fetchingRates, error, selectedYear, activeTab,
                   pendingLoads, pendingFetch, fetchedRange, probe>>

\* calculateDividends(dividendRaw, rates)
RunDividends ==
    /\ ~dividendRaw.isNull
    /\ calcRuns.dividend < MaxRuns
    /\ dividendData' = calculateDividends(dividendRaw.rows, rates)
    /\ calcRuns' = [calcRuns EXCEPT !.dividend = @ + 1]
    /\ UNCHANGED <<gainLossData, interestData, gainLossRaw, dividendRaw, interestRaw,
                   rates, loading, fetchingRates, error, selectedYear, activeTab,
                   pendingLoads, pendingFetch, fetchedRange, probe>>

\* calculateInterests(interestRaw, rates)
RunInterests ==
    /\ ~interestRaw.isNull
    /\ calcRuns.interest < MaxRuns
    /\ interestData' = calculateInterests(interestRaw.rows, rates)
    /\ calcRuns' = [calcRuns EXCEPT !.interest = @ + 1]
    /\ UNCHANGED <<gainLossData, dividendData, gainLossRaw, dividendRaw, interestRaw,
                   rates, loading, fetchingRates, error, selectedYear, activeTab,
                   pendingLoads, pendingFetch, fetchedRange, probe>>

NextCalc ==
    \/ RunGainLoss
    \/ RunDividends
    \/ RunInterests
    \/ \E y \in Years : selectYear(y)
    \/ \E tab \in {"capital", "dividend", "interest"} : setActiveTab(tab)

SpecCalc == InitCalc /\ [][NextCalc]_vars

\* x = Math.floor(usd * rate), in the units of JpyFloor
IsFloorOf(x, usd, rate) == 1000 * x <= usd * rate /\ usd * rate < 1000 * (x + 1)

\* the raw row a derived record was made from
RowOf(raw, record) == raw.rows[record.id + 1]

\* C5: for every derived capital-gain record, proceedsJpy is the floor of proceedsUsd
\* times the rate resolved for the date sold, costJpy is the floor of costUsd times
\* the rate resolved for the acquisition date, and gainLossJpy is proceedsJpy - costJpy
C5_CapitalGains ==
    \A i \in 1..Len(gainLossData) :
        LET t   == gainLossData[i]
            row == RowOf(gainLossRaw, t)
        IN  /\ t.dateSold = DateOfText[row.DateSold]
            /\ t.proceedsUsd = MoneyOfText[row.SalesProceeds]
            /\ t.costUsd = MoneyOfText[row.AdjustCost]
            /\ t.rateSold = getRateForDate(t.dateSold, rates).rate
            /\ t.rateAcquired = getRateForDate(t.dateAcquired, rates).rate
            /\ IsFloorOf(t.proceedsJpy, t.proceedsUsd, t.rateSold)
            /\ IsFloorOf(t.costJpy, t.costUsd, t.rateAcquired)
            /\ t.gainLossJpy = t.proceedsJpy - t.costJpy

\* proceeds 1500 at 140 and cost 1000 at 130 were derived to 210000, 130000 and 80000
C5_Witness ==
    /\ calcRuns.gainLoss >= 1
    /\ \E i \in 1..Len(gainLossData) :
         /\ gainLossData[i].proceedsUsd = 150000 /\ gainLossData[i].rateSold = 1400
         /\ gainLossData[i].costUsd = 100000 /\ gainLossData[i].rateAcquired = 1300
         /\ gainLossData[i].proceedsJpy = 210000
         /\ gainLossData[i].costJpy = 130000
         /\ gainLossData[i].gainLossJpy = 80000

\* C6: for every derived dividend record, amountGrossJpy, taxJpy and amountNetJpy are
\* each the floor of the record's own USD amount times the one rate resolved for the
\* trade date
C6_Dividend ==
    \A i \in 1..Len(dividendData) :
        LET d    == dividendData[i]
            row  == RowOf(dividendRaw, d)
            rate == getRateForDate(DateOfText[row.TradeDate], rates).rate
        IN  /\ d.rate = rate
            /\ IsFloorOf(d.amountGrossJpy, d.amountGrossUsd, rate)
            /\ IsFloorOf(d.taxJpy, d.taxUsd, rate)
            /\ IsFloorOf(d.amountNetJpy, d.amountNetUsd, rate)

\* net 8.50 and tax 1.50 at 145.2 were derived to 1234, 217 and 1452 (not 1234 + 217)
C6_Witness ==
    /\ calcRuns.dividend >= 1
    /\ \E i \in 1..Len(dividendData) :
         /\ dividendData[i].amountNetUsd = 850 /\ dividendData[i].taxUsd = 150
         /\ dividendData[i].rate = 1452
         /\ dividendData[i].amountNetJpy = 1234
         /\ dividendData[i].taxJpy = 217
         /\ dividendData[i].amountGrossJpy = 1452

\* desc contains "tax withheld", in any case
HasTaxWithheld(desc) ==
    includes(toLowerCase(Chars(desc)),
             <<"t", "a", "x", " ", "w", "i", "t", "h", "h", "e", "l", "d">>)

\* C7: for every derived dividend record, amountGrossUsd = amountNetUsd + taxUsd, where
\* amountNetUsd is the amount of the row and taxUsd the amount extracted from its
\* description, 0 when the description has no "tax withheld"
C7_GrossUsd ==
    \A i \in 1..Len(dividendData) :
        LET d   == dividendData[i]
            row == RowOf(dividendRaw, d)
        IN  /\ d.amountGrossUsd = d.amountNetUsd + d.taxUsd
            /\ d.amountNetUsd = MoneyOfText[row.Amount]
            /\ d.taxUsd = TaxOfText[row.Description]
            /\ ~HasTaxWithheld(row.Description) => d.taxUsd = 0

\* a dividend with 1.50 withheld and one with nothing withheld were derived
C7_Witness ==
    /\ calcRuns.dividend >= 1
    /\ \E i, j \in 1..Len(dividendData) :
         /\ dividendData[i].taxUsd = 150 /\ dividendData[i].amountGrossUsd = 1000
         /\ HasTaxWithheld(dividendData[i].description)
         /\ dividendData[j].taxUsd = 0 /\ dividendData[j].amountGrossUsd = 100000
         /\ ~HasTaxWithheld(dividendData[j].description)

C13_DenseIds ==
    /\ \A i \in 1..Len(gainLossData) : gainLossData[i].id = i - 1
    /\ \A i \in 1..Len(dividendData) : dividendData[i].id = i - 1
    /\ \A i \in 1..Len(interestData) : interestData[i].id = i - 1

RECURSIVE SumOf(_)
\* the sum of a sequence of numbers
SumOf(ns) == IF ns = <<>> THEN 0 ELSE Head(ns) + SumOf(Tail(ns))

\* the characters by code unit
CodeUnits == <<" ", "\"", "$", ",", "-", ".", "/">> \o Digits \o UpperChars \o LowerChars

CodeOf(c) == CHOOSE i \in 1..Len(CodeUnits) : CodeUnits[i] = c

\* symbol a is before symbol b in lexicographic order
SymbolBefore(a, b) ==
    LET n == IF Len(a) < Len(b) THEN Len(a) ELSE Len(b)
        d == FirstDifference(SubSeq(a, 1, n), SubSeq(b, 1, n))
    IN  IF d = 0 THEN Len(a) < Len(b) ELSE CodeOf(a[d]) < CodeOf(b[d])

\* the totals of proceeds, cost and gain or loss, in yen and in dollars, over records
SumsOver(records) ==
    [proceeds |-> SumOf([j \in 1..Len(records) |-> records[j].proceedsJpy]),
     cost |-> SumOf([j \in 1..Len(records) |-> records[j].costJpy]),
     gainLoss |-> SumOf([j \in 1..Len(records) |-> records[j].gainLossJpy]),
     proceedsUsd |-> SumOf([j \in 1..Len(records) |-> records[j].proceedsUsd]),
     costUsd |-> SumOf([j \in 1..Len(records) |-> records[j].costUsd]),
     gainLossUsd |-> SumOf([j \in 1..Len(records) |->
                               records[j].proceedsUsd - records[j].costUsd])]

\* the six totals of SumsOver, added up over a sequence of summaries
SumsOfSummaries(summaries) ==
    [proceeds |-> SumOf([k \in 1..Len(summaries) |-> summaries[k].proceeds]),
     cost |-> SumOf([k \in 1..Len(summaries) |-> summaries[k].cost]),
     gainLoss |-> SumOf([k \in 1..Len(summaries) |-> summaries[k].gainLoss]),
     proceedsUsd |-> SumOf([k \in 1..Len(summaries) |-> summaries[k].proceedsUsd]),
     costUsd |-> SumOf([k \in 1..Len(summaries) |-> summaries[k].costUsd]),
     gainLossUsd |-> SumOf([k \in 1..Len(summaries) |-> summaries[k].gainLossUsd])]

C21_AcquisitionDate ==
    \A i \in 1..Len(gainLossData) :
      \A t \in {gainLossData[i]} : \A row \in {RowOf(gainLossRaw, gainLossData[i])} :
        /\ (DateOfText[row.DateAcquired] = NullDate /\ HasVarText[row.DateAcquired]) =>
              (t.dateAcquired = NullDate /\ t.notes = "various")
        /\ (DateOfText[row.DateAcquired] = NullDate /\ ~HasVarText[row.DateAcquired]) =>
              (t.dateAcquired = t.dateSold /\ t.rateAcquired = t.rateSold)
        /\ DateOfText[row.DateAcquired] # NullDate =>
              t.dateAcquired = DateOfText[row.DateAcquired]

\* the positions of the rows whose text for the governing date is a date
Parseable(dateTexts) ==
    {i \in 1..Len(dateTexts) : DateOfText[dateTexts[i]] \notin {NullDate, InvalidDate}}

\* `data` holds, in the order of the rows, one record for each row at a position of
\* `keep` and no other, each equal (but for its id) to the record `alone` makes of
\* its row by itself
OnePerRow(data, rows, keep, alone(_)) ==
    /\ Len(data) = Cardinality(keep)
    /\ \A k \in 1..Cardinality(keep) :
         k <= Len(data) => [data[k] EXCEPT !.id = 0] = alone(rows[NthOf(keep, k)])

\* C22 as claimed: whatever the rows, a calculator that has run leaves exactly one
\* record for each row whose governing date (date sold, trade date) parses and none
\* for the others, in the order of the rows, and each record is the one its row
\* gives by itself with the same rate table
C22_RowIsolation ==
    /\ calcRuns.gainLoss >= 1 =>
         OnePerRow(gainLossData, gainLossRaw.rows,
                   Parseable([i \in 1..Len(gainLossRaw.rows) |-> gainLossRaw.rows[i].DateSold]),
                   LAMBDA row : calculateGainLoss(<<row>>, rates)[1])
    /\ calcRuns.dividend >= 1 =>
         OnePerRow(dividendData, dividendRaw.rows,
                   Parseable([i \in 1..Len(dividendRaw.rows) |-> dividendRaw.rows[i].TradeDate]),
                   LAMBDA row : calculateDividends(<<row>>, rates)[1])
    /\ calcRuns.interest >= 1 =>
         OnePerRow(interestData, interestRaw.rows,
                   Parseable([i \in 1..Len(interestRaw.rows) |-> interestRaw.rows[i].TradeDate]),
                   LAMBDA row : calculateInterests(<<row>>, rates)[1])

====
